---- MODULE Spec2Model ----
(***************************************************************************)
(* Model of BaseRepositoryService (nestjs-mongoose-repository): a facade   *)
(* over one mongoose Model.  The collection is `docs`; every facade method *)
(* is one action that builds the driver query exactly as the method does,  *)
(* runs it against the collection and returns what the method returns.     *)
(* findWithPagination(+Lean) is the only method with two driver calls in   *)
(* flight at once (Promise.all), so it is split into issue / completion    *)
(* steps.                                                                  *)
(***************************************************************************)
EXTENDS Integers, Sequences, FiniteSets, TLC

\* ------------------------------------------------------------------ bounds
MaxId == 2          \* ids of the collection are 1..MaxId
MaxPage == 3        \* caller-supplied page numbers are 0..MaxPage
MaxLimit == 2       \* caller-supplied limits are 0..MaxLimit
MaxBatch == 2       \* createMany takes at most MaxBatch documents
MaxWrites == 1      \* other writers write at most MaxWrites times during one paginated call
MaxTotal == 25      \* the driver reports counts 0..MaxTotal (specification SpecMeta)

\* ------------------------------------------------------- program constants
DefaultPage == 1    \* `page = 1` / `|| 1`
DefaultLimit == 10  \* `limit = 10` / `|| 10`

Ids == 1..MaxId
NoName == "none"                      \* the slot of an id that is not stored
Names == {"A", "X"}                   \* field values; "X" violates the schema
Undefined == "undefined"              \* an option the caller left out
Sessions == {"s1", "s2"}              \* ClientSession handles
SessionOpts == Sessions \cup {Undefined}
MatchAll == "{}"                      \* the empty FilterQuery
NoError == "none"
TransportErrors == {"NetworkError", "TimeoutError"}   \* raised by the driver's transport
Faults == {NoError} \cup TransportErrors              \* what befalls one driver call

\* Optional numbers are sequences of length 0 (undefined) or 1.
None == <<>>
Some(n) == <<n>>
IsSome(o) == Len(o) = 1
Val(o) == o[1]

Null == [id |-> 0, name |-> "null"]   \* the driver's not-found sentinel

VARIABLES
    docs,      \* the collection: docs[i] is the name stored under id i, or NoName
    pc,        \* "idle" | "await" (findWithPagination in flight) | "done"
    op,        \* the facade call being served: its name and arguments
    calls,     \* the driver calls the current facade call has issued, in order
    drv,       \* the outcome the driver gave for each of `calls` (or pending)
    result,    \* what the facade call returned (or threw)
    before,    \* the collection as it was when the current facade call began
    created,   \* the id and data of the last successful create(), until that entity changes
    optedOut,  \* some earlier update call passed runValidators = false
    deleted,   \* the id deleteById / deleteOne removed last, until that id is stored again (0: none)
    torn,      \* another writer wrote between the two reads of the paginated call in flight
    writes     \* the number of writes by other writers during the call in flight

vars == <<docs, pc, op, calls, drv, result, before, created, optedOut, deleted, torn,
          writes>>

\* =================================================================
\* The driver (mongoose Model / Query), as far as the facade uses it
\* =================================================================

\* One call on the query builder: q.select(..), q.sort(..), q.skip(n), ...
B(m, arg, n) == [m |-> m, arg |-> arg, n |-> n]

\* A driver call: the primitive, its arguments, the options object handed to
\* the primitive, and the builder calls chained on the returned query.
DriverCall(prim, id, filter) ==
    [prim |-> prim, id |-> id, filter |-> filter, data |-> <<>>, patch |-> NoName,
     new |-> FALSE, runValidators |-> FALSE, session |-> Undefined, chain |-> <<>>]

Chain(q, b) == [q EXCEPT !.chain = Append(@, b)]

\* The builder calls of method m in the chain, in call order.
ChainOf(q, m) == SelectSeq(q.chain, LAMBDA b : b.m = m)
HasChain(q, m) == Len(ChainOf(q, m)) > 0
LastChain(q, m) == ChainOf(q, m)[Len(ChainOf(q, m))]

\* The session a driver call runs in: the last chained .session(s) call if there
\* is one (s may be null), else the `session` field of the options object.
BoundSession(q) ==
    LET s == IF HasChain(q, "session") THEN LastChain(q, "session").arg ELSE q.session
    IN  IF s \in Sessions THEN s ELSE "none"

Matches(f, n) == n # NoName /\ (f = MatchAll \/ f = n)
Valid(n) == n # "X"                        \* the schema's validator
Entity(i) == [id |-> i, name |-> docs[i]]
Project(e, q) ==
    IF HasChain(q, "select") /\ LastChain(q, "select").arg = "-name"
    THEN [e EXCEPT !.name = "hidden"] ELSE e

RECURSIVE AscFrom(_, _)
AscFrom(i, f) ==
    IF i > MaxId THEN <<>>
    ELSE (IF Matches(f, docs[i]) THEN <<i>> ELSE <<>>) \o AscFrom(i + 1, f)

Reverse(s) == [k \in 1..Len(s) |-> s[Len(s) + 1 - k]]

\* The ids matching the call's target (an id or a filter), in result order.
MatchingIds(q) ==
    LET ids == IF q.prim \in {"findById", "findByIdAndUpdate", "findByIdAndDelete"}
               THEN (IF q.id \in Ids /\ docs[q.id] # NoName THEN <<q.id>> ELSE <<>>)
               ELSE AscFrom(1, q.filter)
    IN  IF HasChain(q, "sort") /\ LastChain(q, "sort").arg = "desc"
        THEN Reverse(ids) ELSE ids

Min(a, b) == IF a < b THEN a ELSE b

\* skip(n) drops n results; limit(n) keeps n results, limit(0) keeps them all.
Window(ids, q) ==
    LET sk == IF HasChain(q, "skip") THEN LastChain(q, "skip").n ELSE 0
        lm == IF HasChain(q, "limit") THEN LastChain(q, "limit").n ELSE 0
        rest == SubSeq(ids, Min(sk, Len(ids)) + 1, Len(ids))
    IN  IF lm = 0 THEN rest ELSE SubSeq(rest, 1, Min(lm, Len(rest)))

Out(status, error, kind, ds, n) ==
    [status |-> status, error |-> error, kind |-> kind, docs |-> ds, n |-> n]
Failed(e) == Out("error", e, "none", <<>>, 0)
Pending == Out("pending", NoError, "none", <<>>, 0)
OneOrNull(ds) == IF Len(ds) = 0 THEN Out("ok", NoError, "null", <<>>, 0)
                 ELSE Out("ok", NoError, "doc", <<ds[1]>>, 0)

\* What a read primitive resolves to on the current collection.
ExecRead(q) ==
    LET ids == MatchingIds(q)
        ents(s) == [k \in 1..Len(s) |-> Project(Entity(s[k]), q)]
    IN  CASE q.prim \in {"findById", "findOne"} -> OneOrNull(ents(ids))
          [] q.prim = "find" ->
                IF HasChain(q, "skip") /\ LastChain(q, "skip").n < 0
                THEN Failed("BadValue")             \* the server rejects a negative skip
                ELSE Out("ok", NoError, "list", ents(Window(ids, q)), 0)
          [] q.prim = "countDocuments" -> Out("ok", NoError, "num", <<>>, Len(ids))
          [] q.prim = "exists" -> OneOrNull(ents(ids))

\* What a write primitive does to the collection and resolves to.  `free` is
\* the id the driver generates for an inserted document.
ExecSave(q, free) ==
    IF ~Valid(q.data[1]) THEN [out |-> Failed("ValidationError"), docs |-> docs]
    ELSE [out |-> Out("ok", NoError, "doc", <<[id |-> free, name |-> q.data[1]]>>, 0),
          docs |-> [docs EXCEPT ![free] = q.data[1]]]

\* insertMany validates every document before it inserts any; ids[k] is the id
\* generated for data[k].
ExecInsertMany(q, ids) ==
    IF \E k \in 1..Len(q.data) : ~Valid(q.data[k])
    THEN [out |-> Failed("ValidationError"), docs |-> docs]
    ELSE [out |-> Out("ok", NoError, "list",
                      [k \in 1..Len(q.data) |-> [id |-> ids[k], name |-> q.data[k]]], 0),
          docs |-> [i \in Ids |-> IF \E k \in 1..Len(ids) : ids[k] = i
                                  THEN q.data[CHOOSE k \in 1..Len(ids) : ids[k] = i]
                                  ELSE docs[i]]]

\* findOneAndUpdate / findByIdAndUpdate with {$set: {name: patch}}: update
\* validators (when asked for) run on the patch before the query is sent; the
\* first match is patched; `new` selects the document returned.
ExecFindOneAndUpdate(q) ==
    LET ids == MatchingIds(q)
    IN  IF q.runValidators /\ ~Valid(q.patch)
        THEN [out |-> Failed("ValidationError"), docs |-> docs]
        ELSE IF Len(ids) = 0
        THEN [out |-> OneOrNull(<<>>), docs |-> docs]
        ELSE LET after == [docs EXCEPT ![ids[1]] = q.patch]
             IN  [out |-> OneOrNull(<<[id |-> ids[1],
                                       name |-> IF q.new THEN after[ids[1]]
                                                ELSE docs[ids[1]]]>>),
                  docs |-> after]

\* updateMany: modifiedCount counts the documents the patch changed.
ExecUpdateMany(q) ==
    LET hit == {i \in Ids : Matches(q.filter, docs[i])}
    IN  IF q.runValidators /\ ~Valid(q.patch)
        THEN [out |-> Failed("ValidationError"), docs |-> docs]
        ELSE [out |-> Out("ok", NoError, "num", <<>>,
                          Cardinality({i \in hit : docs[i] # q.patch})),
              docs |-> [i \in Ids |-> IF i \in hit THEN q.patch ELSE docs[i]]]

\* findOneAndDelete / findByIdAndDelete: removes the first match, returns it.
ExecFindOneAndDelete(q) ==
    LET ids == MatchingIds(q)
    IN  IF Len(ids) = 0 THEN [out |-> OneOrNull(<<>>), docs |-> docs]
        ELSE [out |-> OneOrNull(<<Entity(ids[1])>>),
              docs |-> [docs EXCEPT ![ids[1]] = NoName]]

ExecDeleteMany(q) ==
    LET hit == {i \in Ids : Matches(q.filter, docs[i])}
    IN  [out |-> Out("ok", NoError, "num", <<>>, Cardinality(hit)),
         docs |-> [i \in Ids |-> IF i \in hit THEN NoName ELSE docs[i]]]

\* =================================================================
\* The facade: BaseRepositoryService
\* =================================================================

NoPagination == [present |-> FALSE, page |-> None, limit |-> None]
Pagination(p, l) == [present |-> TRUE, page |-> p, limit |-> l]

\* FindOptions / MutationOptions / UpdateOptions as one record; `present` is
\* FALSE when the caller passed no options object at all.
Options(f, proj, srt, pop, sess, opt, pag) ==
    [present |-> TRUE, filter |-> f, projection |-> proj, sort |-> srt,
     populate |-> pop, session |-> sess, options |-> opt, pagination |-> pag,
     runValidators |-> Undefined]
NoOptions ==
    [present |-> FALSE, filter |-> Undefined, projection |-> Undefined,
     sort |-> Undefined, populate |-> Undefined, session |-> Undefined,
     options |-> Undefined, pagination |-> NoPagination, runValidators |-> Undefined]
MutationOptions(sess) ==
    Options(Undefined, Undefined, Undefined, Undefined, sess, Undefined, NoPagination)
UpdateOptions(sess, rv) == [MutationOptions(sess) EXCEPT !.runValidators = rv]

\* options?.filter || {}
FilterOrAll(o) == IF o.filter = Undefined THEN MatchAll ELSE o.filter

ApplyPopulate(q, populate) == Chain(q, B("populate", populate, 0))

\* the session bound before projection, sort and populate
ApplyQueryOptions_SessionFirst(q, o) ==
    IF ~o.present THEN q
    ELSE LET q1 == IF o.session # Undefined
                   THEN Chain(q, B("session", o.session, 0)) ELSE q
             q2 == IF o.projection # Undefined
                   THEN Chain(q1, B("select", o.projection, 0)) ELSE q1
             q3 == IF o.sort # Undefined THEN Chain(q2, B("sort", o.sort, 0)) ELSE q2
             q4 == IF o.populate # Undefined THEN ApplyPopulate(q3, o.populate) ELSE q3
             q5 == IF o.options # Undefined
                   THEN Chain(q4, B("setOptions", o.options, 0)) ELSE q4
         IN  q5

ApplyQueryOptions(q, o) ==
    IF ~o.present THEN q
    ELSE LET q1 == IF o.projection # Undefined
                   THEN Chain(q, B("select", o.projection, 0)) ELSE q
             q2 == IF o.sort # Undefined THEN Chain(q1, B("sort", o.sort, 0)) ELSE q1
             q3 == IF o.populate # Undefined THEN ApplyPopulate(q2, o.populate) ELSE q2
             q4 == IF o.session # Undefined
                   THEN Chain(q3, B("session", o.session, 0)) ELSE q3
             q5 == IF o.options # Undefined
                   THEN Chain(q4, B("setOptions", o.options, 0)) ELSE q4
         IN  q5

Lean(q) == Chain(q, B("lean", "", 0))
Exec(q) == Chain(q, B("exec", "", 0))

\* const { page = 1, limit = 10 } = options.pagination
PageOrDefault(pag) == IF IsSome(pag.page) THEN Val(pag.page) ELSE DefaultPage
LimitOrDefault(pag) == IF IsSome(pag.limit) THEN Val(pag.limit) ELSE DefaultLimit

\* skip computed from a zero-based page: page * limit
ApplyPagination_ZeroBased(q, o) ==
    IF o.present /\ o.pagination.present
    THEN Chain(Chain(q, B("skip", "", PageOrDefault(o.pagination)
                                      * LimitOrDefault(o.pagination))),
               B("limit", "", LimitOrDefault(o.pagination)))
    ELSE q

\* skip without limit
ApplyPagination_NoLimit(q, o) ==
    IF o.present /\ o.pagination.present
    THEN Chain(q, B("skip", "", (PageOrDefault(o.pagination) - 1)
                                * LimitOrDefault(o.pagination)))
    ELSE q

\* if (options?.pagination) { ... query.skip(skip).limit(limit) }
ApplyPagination(q, o) ==
    IF o.present /\ o.pagination.present
    THEN LET page == PageOrDefault(o.pagination)
             limit == LimitOrDefault(o.pagination)
             skip == (page - 1) * limit
         IN  Chain(Chain(q, B("skip", "", skip)), B("limit", "", limit))
    ELSE q

FindByIdQuery(id, o) == Exec(ApplyQueryOptions(DriverCall("findById", id, MatchAll), o))
FindOneQuery(o) == Exec(ApplyQueryOptions(DriverCall("findOne", 0, FilterOrAll(o)), o))
FindManyQuery(o) ==
    Exec(ApplyPagination(ApplyQueryOptions(DriverCall("find", 0, FilterOrAll(o)), o), o))
FindByIdLeanQuery(id, o) ==
    Exec(Lean(ApplyQueryOptions(DriverCall("findById", id, MatchAll), o)))
FindOneLeanQuery(o) ==
    Exec(Lean(ApplyQueryOptions(DriverCall("findOne", 0, FilterOrAll(o)), o)))
\* the lean list query without the pagination block
FindManyLeanQuery_NoPagination(o) ==
    Exec(Lean(ApplyQueryOptions(DriverCall("find", 0, FilterOrAll(o)), o)))
FindManyLeanQuery(o) ==
    Exec(Lean(ApplyPagination(
        ApplyQueryOptions(DriverCall("find", 0, FilterOrAll(o)), o), o)))

\* the chained call always passes null
SessionOrNull_Dropped(o) == "null"

\* .session(options?.session ?? null)
SessionOrNull(o) == IF o.session = Undefined THEN "null" ELSE o.session

\* count(filter, options): filter || {}
CountQuery(f, o) ==
    Exec(Chain(DriverCall("countDocuments", 0, IF f = Undefined THEN MatchAll ELSE f),
               B("session", SessionOrNull(o), 0)))
ExistsQuery(f, o) ==
    Chain(DriverCall("exists", 0, f), B("session", SessionOrNull(o), 0))

\* create: new this.model(data), then doc.save({session}) or doc.save()
SaveCall(d, o) ==
    [DriverCall("save", 0, MatchAll) EXCEPT !.data = <<d>>, !.session = o.session]
InsertManyCall(ds, o) ==
    [DriverCall("insertMany", 0, MatchAll) EXCEPT !.data = ds, !.session = o.session]

\* options?.runValidators, without the `?? true`
RunValidatorsOrTrue_Falsy(o) == o.runValidators = "true"
\* { new: false }
ReturnNew_False == FALSE

\* options?.runValidators ?? true
RunValidatorsOrTrue(o) == IF o.runValidators = Undefined THEN TRUE
                          ELSE o.runValidators = "true"
\* the `new` flag handed to findByIdAndUpdate / findOneAndUpdate
ReturnNew == TRUE

UpdateByIdCall(id, patch, o) ==
    Exec([DriverCall("findByIdAndUpdate", id, MatchAll) EXCEPT
            !.patch = patch, !.new = ReturnNew,
            !.runValidators = RunValidatorsOrTrue(o), !.session = o.session])
UpdateOneCall(f, patch, o) ==
    Exec([DriverCall("findOneAndUpdate", 0, f) EXCEPT
            !.patch = patch, !.new = ReturnNew,
            !.runValidators = RunValidatorsOrTrue(o), !.session = o.session])
UpdateManyCall(f, patch, o) ==
    Exec([DriverCall("updateMany", 0, f) EXCEPT
            !.patch = patch,
            !.runValidators = RunValidatorsOrTrue(o), !.session = o.session])
DeleteByIdCall_FirstMatch(id, o) ==
    Exec([DriverCall("findOneAndDelete", id, MatchAll) EXCEPT !.session = o.session])
DeleteByIdCall(id, o) ==
    Exec([DriverCall("findByIdAndDelete", id, MatchAll) EXCEPT !.session = o.session])
DeleteOneCall(f, o) ==
    Exec([DriverCall("findOneAndDelete", 0, f) EXCEPT !.session = o.session])
DeleteManyCall(f, o) ==
    Exec(Chain(DriverCall("deleteMany", 0, f), B("session", SessionOrNull(o), 0)))

\* ------------------------------------------------------------ return values
NoMeta == [total |-> 0, page |-> 0, limit |-> 0, totalPages |-> 0,
           hasNextPage |-> FALSE, hasPrevPage |-> FALSE]
Ret(status, error, kind, ds, n, flag, meta) ==
    [status |-> status, error |-> error, kind |-> kind, docs |-> ds, n |-> n,
     flag |-> flag, meta |-> meta]
NoResult == Ret("none", NoError, "none", <<>>, 0, FALSE, NoMeta)

\* a null from the driver is turned into an exception
Return_ThrowIfNull(out) ==
    IF out.kind = "null" THEN Ret("error", "NotFoundException", "none", <<>>, 0, FALSE, NoMeta)
    ELSE Ret(out.status, out.error, out.kind, out.docs, out.n, FALSE, NoMeta)
\* a rejection is caught and null returned
Return_Swallow(out) ==
    IF out.status = "error" THEN Ret("ok", NoError, "null", <<>>, 0, FALSE, NoMeta)
    ELSE Ret(out.status, out.error, out.kind, out.docs, out.n, FALSE, NoMeta)

\* `return query.exec()`: the driver's promise is the method's promise, so
\* its value is returned and its rejection is thrown, unchanged.
Return(out) == Ret(out.status, out.error, out.kind, out.docs, out.n, FALSE, NoMeta)

\* result === null
ExistsReturn_Inverted(out) ==
    IF out.status = "ok"
    THEN Ret("ok", NoError, "bool", <<>>, 0, out.kind = "null", NoMeta)
    ELSE Ret(out.status, out.error, out.kind, out.docs, out.n, FALSE, NoMeta)

\* exists: `return result !== null`
ExistsReturn(out) ==
    IF out.status = "ok"
    THEN Ret("ok", NoError, "bool", <<>>, 0, out.kind # "null", NoMeta)
    ELSE Return(out)

\* updateMany / deleteMany: `return result.modifiedCount` / `result.deletedCount`
CountReturn_Acknowledged(out) ==
    IF out.status = "ok" THEN Ret("ok", NoError, "num", <<>>, 1, FALSE, NoMeta)
    ELSE Return(out)
CountReturn(out) ==
    IF out.status = "ok" THEN Ret("ok", NoError, "num", <<>>, out.n, FALSE, NoMeta)
    ELSE Return(out)

\* --------------------------------------------------------------- pagination
\* options?.pagination?.page || 1   and   options?.pagination?.limit || 10
EffectivePage(o) ==
    IF o.present /\ o.pagination.present /\ IsSome(o.pagination.page)
       /\ Val(o.pagination.page) # 0
    THEN Val(o.pagination.page) ELSE DefaultPage
EffectiveLimit(o) ==
    IF o.present /\ o.pagination.present /\ IsSome(o.pagination.limit)
       /\ Val(o.pagination.limit) # 0
    THEN Val(o.pagination.limit) ELSE DefaultLimit

\* { ...options, pagination: { page, limit } }
WithPagination(o, page, limit) ==
    [o EXCEPT !.present = TRUE, !.pagination = Pagination(Some(page), Some(limit))]

\* Math.floor in place of Math.ceil
Ceil_Floor(total, limit) == total \div limit

\* Math.ceil(total / limit), for limit > 0
Ceil(total, limit) ==
    IF total % limit = 0 THEN total \div limit ELSE (total \div limit) + 1

PaginationMeta(total, page, limit) ==
    LET totalPages == Ceil(total, limit)
    IN  [total |-> total, page |-> page, limit |-> limit, totalPages |-> totalPages,
         hasNextPage |-> page < totalPages, hasPrevPage |-> page > 1]

\* The two driver calls of findWithPagination / findWithPaginationLean.
\* the count query without the filter
PaginatedCalls_CountAll(o, lean) ==
    LET inner == WithPagination(o, EffectivePage(o), EffectiveLimit(o))
    IN  << IF lean THEN FindManyLeanQuery(inner) ELSE FindManyQuery(inner),
           CountQuery(Undefined, MutationOptions(o.session)) >>

PaginatedCalls(o, lean) ==
    LET inner == WithPagination(o, EffectivePage(o), EffectiveLimit(o))
    IN  << IF lean THEN FindManyLeanQuery(inner) ELSE FindManyQuery(inner),
           CountQuery(FilterOrAll(o), MutationOptions(o.session)) >>

PaginatedReturn(o, data, total) ==
    Ret("ok", NoError, "page", data.docs, 0, FALSE,
        PaginationMeta(total.n, EffectivePage(o), EffectiveLimit(o)))

\* the result is built as soon as the data fetch has resolved
PromiseAll_DataOnly(o, settled, outs) ==
    IF outs[1].status = "ok" THEN PaginatedReturn(o, outs[1], outs[2])
    ELSE IF settled.status = "error" THEN
        Ret(settled.status, settled.error, settled.kind, settled.docs, settled.n,
            FALSE, NoMeta)
    ELSE NoResult

\* Promise.all over <<data, count>>, entered when one of them settles: it
\* rejects with the first rejection, resolves once both have resolved.
PromiseAll(o, settled, outs) ==
    IF settled.status = "error" THEN Return(settled)
    ELSE IF outs[1].status = "ok" /\ outs[2].status = "ok"
    THEN PaginatedReturn(o, outs[1], outs[2])
    ELSE NoResult

\* =================================================================
\* Inputs
\* =================================================================
Filters == {MatchAll} \cup Names                \* a FilterQuery argument
FilterOpts == {Undefined} \cup Names            \* the optional `filter` option
OptNums(max) == {None} \cup {Some(n) : n \in 0..max}
Paginations ==
    {NoPagination} \cup
    {Pagination(p, l) : p \in OptNums(MaxPage), l \in OptNums(MaxLimit)}
RunValidatorsOpts == {Undefined, "true", "false"}

\* Options with only the session set: what the lifecycle specification passes.
PlainOptions == {NoOptions} \cup {MutationOptions(sess) : sess \in SessionOpts}
PlainFilterOptions ==
    {NoOptions} \cup
    {Options(f, Undefined, Undefined, Undefined, sess, Undefined, NoPagination) :
        f \in FilterOpts, sess \in SessionOpts}
AllUpdateOptions ==
    {NoOptions} \cup
    {UpdateOptions(sess, rv) : sess \in SessionOpts, rv \in RunValidatorsOpts}

\* Every combination of the read options.
ReadOptions(filters, paginations) ==
    {NoOptions} \cup
    {Options(f, proj, srt, pop, sess, opt, pag) :
        f \in filters, proj \in {Undefined, "-name"}, srt \in {Undefined, "desc"},
        pop \in {Undefined, "ref"}, sess \in SessionOpts,
        opt \in {Undefined, "maxTimeMS"}, pag \in paginations}

FreeIds == {i \in Ids : docs[i] = NoName}
Batches == UNION {[1..n -> Names] : n \in 1..MaxBatch}
\* the sequences of n distinct free ids
FreeIdSeqs(n) ==
    {s \in [1..n -> FreeIds] : \A j, k \in 1..n : j # k => s[j] # s[k]}

\* =================================================================
\* Operations
\* =================================================================
Call(name, id, filter, data, patch, o, lean) ==
    [name |-> name, id |-> id, filter |-> filter, data |-> data, patch |-> patch,
     opts |-> o, lean |-> lean]
NoCall == Call("none", 0, Undefined, <<>>, NoName, NoOptions, FALSE)

UpdateNames == {"updateById", "updateOne", "updateMany"}

\* A facade call begins when the caller has taken the previous one's result.
Begin ==
    /\ pc = "idle"
    /\ UNCHANGED <<optedOut, torn, writes>>

\* The caller takes the result of the call; the facade keeps nothing of it
\* (its only field is the model reference).
Resume ==
    /\ pc = "done"
    /\ pc' = "idle"
    /\ op' = [name |-> "none", id |-> 0, filter |-> Undefined, data |-> <<>>,
              patch |-> NoName, opts |-> NoOptions, lean |-> FALSE]
    /\ calls' = <<>>
    /\ drv' = <<>>
    /\ result' = NoResult
    /\ optedOut' = (optedOut \/ (op.name \in UpdateNames
                                 /\ op.opts.runValidators = "false"))
    /\ before' = docs
    /\ torn' = FALSE
    /\ writes' = 0
    /\ UNCHANGED <<docs, created, deleted>>

\* The created entity stays tracked until a write changes or removes it.
Track(c, d) == IF c # Null /\ d[c.id] # c.name THEN Null ELSE c

\* A method with one driver call: the call is issued, settles, and the method
\* returns.
Serve(c, q, out, ret, d) ==
    /\ pc' = "done"
    /\ op' = c
    /\ calls' = <<q>>
    /\ drv' = <<out>>
    /\ result' = ret
    /\ docs' = d
    /\ before' = docs
    /\ created' = IF c.name = "create" /\ out.status = "ok"
                  THEN [id |-> out.docs[1].id, name |-> c.data[1]]
                  ELSE Track(created, d)
    /\ deleted' = IF c.name \in {"deleteById", "deleteOne"} /\ out.kind = "doc"
                  THEN out.docs[1].id
                  ELSE IF deleted # 0 /\ d[deleted] # NoName THEN 0 ELSE deleted

WriteOut(r, fault) ==
    IF fault # NoError THEN [out |-> Failed(fault), docs |-> docs] ELSE r

Create ==
    /\ Begin
    /\ \E data \in Names, o \in PlainOptions, fault \in Faults :
        /\ FreeIds # {}
        /\ \E free \in FreeIds :
            LET q == SaveCall(data, o)
                r == WriteOut(ExecSave(q, free), fault)
            IN  Serve(Call("create", 0, Undefined, <<data>>, NoName, o, FALSE),
                      q, r.out, Return(r.out), r.docs)

CreateMany ==
    /\ Begin
    /\ \E data \in Batches, o \in PlainOptions, fault \in Faults :
        \E ids \in FreeIdSeqs(Len(data)) :
            LET q == InsertManyCall(data, o)
                r == WriteOut(ExecInsertMany(q, ids), fault)
            IN  Serve(Call("createMany", 0, Undefined, data, NoName, o, FALSE),
                      q, r.out, Return(r.out), r.docs)

ReadOut(q, fault) == IF fault # NoError THEN Failed(fault) ELSE ExecRead(q)

FindById(O) ==
    /\ Begin
    /\ \E id \in Ids, o \in O, fault \in Faults :
        LET q == FindByIdQuery(id, o)
            out == ReadOut(q, fault)
        IN  Serve(Call("findById", id, Undefined, <<>>, NoName, o, FALSE),
                  q, out, Return(out), docs)

FindOne(O) ==
    /\ Begin
    /\ \E o \in O, fault \in Faults :
        LET q == FindOneQuery(o)
            out == ReadOut(q, fault)
        IN  Serve(Call("findOne", 0, Undefined, <<>>, NoName, o, FALSE),
                  q, out, Return(out), docs)

FindMany(O) ==
    /\ Begin
    /\ \E o \in O, fault \in Faults :
        LET q == FindManyQuery(o)
            out == ReadOut(q, fault)
        IN  Serve(Call("findMany", 0, Undefined, <<>>, NoName, o, FALSE),
                  q, out, Return(out), docs)

FindByIdLean(O) ==
    /\ Begin
    /\ \E id \in Ids, o \in O, fault \in Faults :
        LET q == FindByIdLeanQuery(id, o)
            out == ReadOut(q, fault)
        IN  Serve(Call("findByIdLean", id, Undefined, <<>>, NoName, o, TRUE),
                  q, out, Return(out), docs)

FindOneLean(O) ==
    /\ Begin
    /\ \E o \in O, fault \in Faults :
        LET q == FindOneLeanQuery(o)
            out == ReadOut(q, fault)
        IN  Serve(Call("findOneLean", 0, Undefined, <<>>, NoName, o, TRUE),
                  q, out, Return(out), docs)

FindManyLean(O) ==
    /\ Begin
    /\ \E o \in O, fault \in Faults :
        LET q == FindManyLeanQuery(o)
            out == ReadOut(q, fault)
        IN  Serve(Call("findManyLean", 0, Undefined, <<>>, NoName, o, TRUE),
                  q, out, Return(out), docs)

UpdateById ==
    /\ Begin
    /\ \E id \in Ids, patch \in Names, o \in AllUpdateOptions, fault \in Faults :
        LET q == UpdateByIdCall(id, patch, o)
            r == WriteOut(ExecFindOneAndUpdate(q), fault)
        IN  Serve(Call("updateById", id, Undefined, <<>>, patch, o, FALSE),
                  q, r.out, Return(r.out), r.docs)

UpdateOne ==
    /\ Begin
    /\ \E f \in Filters, patch \in Names, o \in AllUpdateOptions, fault \in Faults :
        LET q == UpdateOneCall(f, patch, o)
            r == WriteOut(ExecFindOneAndUpdate(q), fault)
        IN  Serve(Call("updateOne", 0, f, <<>>, patch, o, FALSE),
                  q, r.out, Return(r.out), r.docs)

UpdateMany ==
    /\ Begin
    /\ \E f \in Filters, patch \in Names, o \in AllUpdateOptions, fault \in Faults :
        LET q == UpdateManyCall(f, patch, o)
            r == WriteOut(ExecUpdateMany(q), fault)
        IN  Serve(Call("updateMany", 0, f, <<>>, patch, o, FALSE),
                  q, r.out, CountReturn(r.out), r.docs)

DeleteById ==
    /\ Begin
    /\ \E id \in Ids, o \in PlainOptions, fault \in Faults :
        LET q == DeleteByIdCall(id, o)
            r == WriteOut(ExecFindOneAndDelete(q), fault)
        IN  Serve(Call("deleteById", id, Undefined, <<>>, NoName, o, FALSE),
                  q, r.out, Return(r.out), r.docs)

DeleteOne ==
    /\ Begin
    /\ \E f \in Filters, o \in PlainOptions, fault \in Faults :
        LET q == DeleteOneCall(f, o)
            r == WriteOut(ExecFindOneAndDelete(q), fault)
        IN  Serve(Call("deleteOne", 0, f, <<>>, NoName, o, FALSE),
                  q, r.out, Return(r.out), r.docs)

DeleteMany ==
    /\ Begin
    /\ \E f \in Filters, o \in PlainOptions, fault \in Faults :
        LET q == DeleteManyCall(f, o)
            r == WriteOut(ExecDeleteMany(q), fault)
        IN  Serve(Call("deleteMany", 0, f, <<>>, NoName, o, FALSE),
                  q, r.out, CountReturn(r.out), r.docs)

Count ==
    /\ Begin
    /\ \E f \in Filters \cup {Undefined}, o \in PlainOptions, fault \in Faults :
        LET q == CountQuery(f, o)
            out == ReadOut(q, fault)
        IN  Serve(Call("count", 0, f, <<>>, NoName, o, FALSE),
                  q, out, Return(out), docs)

Exists ==
    /\ Begin
    /\ \E f \in Filters, o \in PlainOptions, fault \in Faults :
        LET q == ExistsQuery(f, o)
            out == ReadOut(q, fault)
        IN  Serve(Call("exists", 0, f, <<>>, NoName, o, FALSE),
                  q, out, ExistsReturn(out), docs)

\* ------------------------------------------- findWithPagination(+Lean)
PaginatedNames == {"findWithPagination", "findWithPaginationLean"}

\* Both driver calls are issued before the method suspends on Promise.all.
Issue(name, o, lean) ==
    /\ pc' = "await"
    /\ op' = Call(name, 0, Undefined, <<>>, NoName, o, lean)
    /\ calls' = PaginatedCalls(o, lean)
    /\ drv' = <<Pending, Pending>>
    /\ result' = NoResult
    /\ before' = docs
    /\ UNCHANGED <<docs, created, deleted>>

FindWithPagination(O) ==
    /\ Begin
    /\ \E o \in O : Issue("findWithPagination", o, FALSE)
FindWithPaginationLean(O) ==
    /\ Begin
    /\ \E o \in O : Issue("findWithPaginationLean", o, TRUE)

\* Driver call k of the paginated method settles.  While the method still
\* awaits, Promise.all decides whether it returns, throws or keeps waiting; a
\* call that settles after the method threw changes nothing.
Settle(k) ==
    /\ op.name \in PaginatedNames
    /\ pc \in {"await", "done"}
    /\ drv[k].status = "pending"
    /\ \E fault \in Faults :
        /\ LET out == ReadOut(calls[k], fault)
               outs == [drv EXCEPT ![k] = out]
               ret == PromiseAll(op.opts, out, outs)
           IN  /\ drv' = outs
               /\ IF pc = "await" /\ ret # NoResult
                  THEN pc' = "done" /\ result' = ret
                  ELSE UNCHANGED <<pc, result>>
        /\ UNCHANGED <<docs, op, calls, before, created, optedOut, deleted, torn,
                       writes>>

DataSettles == Settle(1)
CountSettles == Settle(2)

\* =================================================================
\* Specifications
\* =================================================================
\* Another client of the database writes to the collection while a paginated
\* call awaits its two driver calls; the facade takes no lock and no snapshot.
OtherWrite(d) ==
    /\ pc = "await"
    /\ writes < MaxWrites
    /\ docs' = d
    /\ writes' = writes + 1
    /\ torn' = (torn \/ Cardinality({k \in 1..2 : drv[k].status = "pending"}) = 1)
    /\ created' = Track(created, d)
    /\ deleted' = IF deleted # 0 /\ d[deleted] # NoName THEN 0 ELSE deleted
    /\ UNCHANGED <<pc, op, calls, drv, result, before, optedOut>>

OtherInsert ==
    /\ pc = "await"
    /\ \E i \in FreeIds, n \in Names : OtherWrite([docs EXCEPT ![i] = n])
OtherDelete ==
    /\ pc = "await"
    /\ \E i \in Ids : docs[i] # NoName /\ OtherWrite([docs EXCEPT ![i] = NoName])

Idle ==
    /\ pc = "idle"
    /\ op = NoCall
    /\ calls = <<>>
    /\ drv = <<>>
    /\ result = NoResult
    /\ before = docs
    /\ created = Null
    /\ optedOut = FALSE
    /\ deleted = 0
    /\ torn = FALSE
    /\ writes = 0

\* The facade over an empty collection, every method with its session option.
Init == docs = [i \in Ids |-> NoName] /\ Idle

Next ==
    \/ Create
    \/ CreateMany
    \/ FindById(PlainOptions)
    \/ FindOne(PlainFilterOptions)
    \/ FindMany(PlainFilterOptions)
    \/ FindByIdLean(PlainOptions)
    \/ FindOneLean(PlainFilterOptions)
    \/ FindManyLean(PlainFilterOptions)
    \/ FindWithPagination(PlainFilterOptions)
    \/ FindWithPaginationLean(PlainFilterOptions)
    \/ DataSettles
    \/ CountSettles
    \/ UpdateById
    \/ UpdateOne
    \/ UpdateMany
    \/ DeleteById
    \/ DeleteOne
    \/ DeleteMany
    \/ Count
    \/ Exists
    \/ Resume

Spec == Init /\ [][Next]_vars

\* The read methods with every combination of options, over any collection.
Collections == [Ids -> Names \cup {NoName}]
InitRead == docs \in Collections /\ Idle

NextRead ==
    \/ FindById(ReadOptions({Undefined}, {NoPagination}))
    \/ FindOne(ReadOptions(FilterOpts, {NoPagination}))
    \/ FindMany(ReadOptions(FilterOpts, Paginations))
    \/ FindByIdLean(ReadOptions({Undefined}, {NoPagination}))
    \/ FindOneLean(ReadOptions(FilterOpts, {NoPagination}))
    \/ FindManyLean(ReadOptions(FilterOpts, Paginations))
    \/ Resume

SpecRead == InitRead /\ [][NextRead]_vars

\* The paginated methods with every pagination, over any collection.
PageOptions ==
    {NoOptions} \cup
    {Options(f, Undefined, srt, Undefined, sess, Undefined, pag) :
        f \in FilterOpts, srt \in {Undefined, "desc"}, sess \in SessionOpts,
        pag \in Paginations}

NextPage ==
    \/ FindWithPagination(PageOptions)
    \/ FindWithPaginationLean(PageOptions)
    \/ DataSettles
    \/ CountSettles
    \/ Resume

SpecPage == InitRead /\ [][NextPage]_vars

\* The pagination arithmetic on its own: the paginated methods with every
\* pagination, for every count 0..MaxTotal the driver may report (the
\* collection behind the count is not enumerated).
\* Every read method and its lean counterpart over the options that shape
\* the entities returned: filter, projection, sort, populate and pagination.
LeanOptions ==
    {NoOptions} \cup
    {Options(f, proj, srt, pop, Undefined, Undefined, pag) :
        f \in FilterOpts, proj \in {Undefined, "-name"}, srt \in {Undefined, "desc"},
        pop \in {Undefined, "ref"}, pag \in Paginations}
LeanIdOptions == {o \in LeanOptions : ~o.present \/ (o.filter = Undefined /\ ~o.pagination.present)}
LeanOneOptions == {o \in LeanOptions : ~o.present \/ ~o.pagination.present}

NextLean ==
    \/ FindById(LeanIdOptions)
    \/ FindOne(LeanOneOptions)
    \/ FindMany(LeanOptions)
    \/ FindWithPagination(LeanOptions)
    \/ FindByIdLean(LeanIdOptions)
    \/ FindOneLean(LeanOneOptions)
    \/ FindManyLean(LeanOptions)
    \/ FindWithPaginationLean(LeanOptions)
    \/ DataSettles
    \/ CountSettles
    \/ Resume

SpecLean == InitRead /\ [][NextLean]_vars

\* The paginated methods while other writers insert and delete.
RacePaginations ==
    {Pagination(Some(p), Some(l)) : p \in 1..MaxPage, l \in 1..MaxLimit}
RaceOptions ==
    {Options(f, proj, srt, Undefined, Undefined, Undefined, pag) :
        f \in FilterOpts, proj \in {Undefined, "-name"}, srt \in {Undefined, "desc"},
        pag \in RacePaginations}

NextRace ==
    \/ FindWithPagination(RaceOptions)
    \/ FindWithPaginationLean(RaceOptions)
    \/ DataSettles
    \/ CountSettles
    \/ OtherInsert
    \/ OtherDelete
    \/ Resume

SpecRace == InitRead /\ [][NextRace]_vars

MetaOptions ==
    {NoOptions} \cup
    {Options(Undefined, Undefined, Undefined, Undefined, Undefined, Undefined, pag) :
        pag \in Paginations}

PaginateTotal ==
    /\ Begin
    /\ \E o \in MetaOptions, lean \in BOOLEAN, total \in 0..MaxTotal :
        LET qs == PaginatedCalls(o, lean)
            outs == << ReadOut(qs[1], NoError), Out("ok", NoError, "num", <<>>, total) >>
        IN  /\ pc' = "done"
            /\ op' = Call(IF lean THEN "findWithPaginationLean" ELSE "findWithPagination",
                          0, Undefined, <<>>, NoName, o, lean)
            /\ calls' = qs
            /\ drv' = outs
            /\ result' = PromiseAll(o, outs[2], outs)
            /\ before' = docs
            /\ UNCHANGED <<docs, created, deleted>>

NextMeta ==
    \/ PaginateTotal
    \/ Resume

SpecMeta == Init /\ [][NextMeta]_vars

\* =================================================================
\* Properties
\* =================================================================
Returned == pc = "done" /\ result.status = "ok"
IsPaginated == op.name \in PaginatedNames
GaveSession == IF op.opts.session \in Sessions THEN op.opts.session ELSE "none"
SkipOf(q) == LastChain(q, "skip").n
LimitOf(q) == LastChain(q, "limit").n

\* C1: in every result of findWithPagination(+Lean) whose page and limit are at
\* least 1, totalPages is the least number of pages of `limit` entries that
\* hold `total` entries (the ceiling of total / limit), hasNextPage says
\* page < totalPages, and hasPrevPage says page > 1.
C1_MetaArithmetic ==
    (Returned /\ result.kind = "page" /\ result.meta.page >= 1 /\ result.meta.limit >= 1)
    => LET m == result.meta
       IN  /\ m.total >= 0
           /\ m.totalPages * m.limit >= m.total
           /\ (m.totalPages - 1) * m.limit < m.total
           /\ m.hasNextPage = (m.page < m.totalPages)
           /\ m.hasPrevPage = (m.page > 1)

\* total = 25, page = 3, limit = 10 gives totalPages = 3, no next page, a previous page
C1_Witness ==
    /\ Returned
    /\ result.kind = "page"
    /\ result.meta = [total |-> 25, page |-> 3, limit |-> 10, totalPages |-> 3,
                      hasNextPage |-> FALSE, hasPrevPage |-> TRUE]
    /\ Len(result.docs) <= 10

\* C2: findMany and findManyLean chain skip((page-1)*limit) and limit(limit) on
\* the query, before exec, exactly when the pagination option is present (a
\* missing page counts as 1, a missing limit as 10); without pagination no skip
\* and no limit is chained and every match is returned.
C2_SkipLimitIffPagination ==
    (pc = "done" /\ op.name \in {"findMany", "findManyLean"})
    => LET q == calls[1]
           pag == op.opts.pagination
           given == op.opts.present /\ pag.present
           page == IF IsSome(pag.page) THEN Val(pag.page) ELSE 1
           limit == IF IsSome(pag.limit) THEN Val(pag.limit) ELSE 10
       IN  /\ HasChain(q, "skip") <=> given
           /\ HasChain(q, "limit") <=> given
           /\ given =>
                /\ Len(ChainOf(q, "skip")) = 1 /\ SkipOf(q) = (page - 1) * limit
                /\ Len(ChainOf(q, "limit")) = 1 /\ LimitOf(q) = limit
                /\ \E i, j, k \in 1..Len(q.chain) :
                      /\ i < j /\ j < k /\ k = Len(q.chain)
                      /\ q.chain[i].m = "skip" /\ q.chain[j].m = "limit"
                      /\ q.chain[k].m = "exec"
           /\ (~given /\ result.status = "ok") =>
                Len(result.docs) =
                    Cardinality({i \in Ids : Matches(FilterOrAll(op.opts), docs[i])})

\* findMany with pagination {page: 2} (limit left out) issues skip = 10, limit = 10
C2_Witness ==
    /\ pc = "done"
    /\ op.name = "findMany"
    /\ op.opts.pagination = Pagination(Some(2), None)
    /\ SkipOf(calls[1]) = 10
    /\ LimitOf(calls[1]) = 10

\* C3 (as claimed): findWithPagination(+Lean) falls back to page 1 / limit 10
\* only for a field that is absent; a supplied page or limit is the value used
\* for skip/limit of the data fetch and reported in meta, and the data fetch is
\* the query findMany builds for the same pagination.
C3_SuppliedValueIsUsed ==
    (IsPaginated /\ pc \in {"await", "done"})
    => LET pag == op.opts.pagination
           page == IF op.opts.present /\ pag.present /\ IsSome(pag.page)
                   THEN Val(pag.page) ELSE 1
           limit == IF op.opts.present /\ pag.present /\ IsSome(pag.limit)
                    THEN Val(pag.limit) ELSE 10
           same == [op.opts EXCEPT !.present = TRUE,
                                   !.pagination = IF op.opts.present /\ pag.present
                                                  THEN pag ELSE Pagination(None, None)]
       IN  /\ SkipOf(calls[1]) = (page - 1) * limit
           /\ LimitOf(calls[1]) = limit
           /\ calls[1] = IF op.lean THEN FindManyLeanQuery(same) ELSE FindManyQuery(same)
           /\ result.status = "ok" => (result.meta.page = page /\ result.meta.limit = limit)

\* C4: findWithPagination(+Lean) issues the data fetch and the count as two
\* calls neither of which waits for the other; it returns a result only when
\* both have resolved, built from both; when either is rejected the method
\* throws the error of a rejected call and returns neither data nor meta.
C4_BothOrNothing ==
    (IsPaginated /\ pc \in {"await", "done"})
    => /\ Len(calls) = 2 /\ Len(drv) = 2
       /\ calls[1].prim = "find" /\ calls[2].prim = "countDocuments"
       /\ pc = "await" =>
            /\ result = NoResult
            /\ \A k \in 1..2 : drv[k].status # "error"
            /\ drv[1].status = "pending" => ENABLED DataSettles
            /\ drv[2].status = "pending" => ENABLED CountSettles
       /\ pc = "done" => result.status \in {"ok", "error"}
       /\ result.status = "ok" =>
            /\ drv[1].status = "ok" /\ drv[2].status = "ok"
            /\ result.kind = "page"
            /\ result.docs = drv[1].docs
            /\ result.meta.total = drv[2].n
       /\ (\E k \in 1..2 : drv[k].status = "error") =>
            /\ result.status = "error"
            /\ \E k \in 1..2 : drv[k].status = "error" /\ result.error = drv[k].error
            /\ result.kind = "none" /\ result.docs = <<>> /\ result.meta = NoMeta

\* the count is rejected while the data fetch is still in flight: the method has thrown
C4_Witness ==
    /\ IsPaginated
    /\ pc = "done"
    /\ drv[1].status = "pending"
    /\ drv[2].status = "error"
    /\ result.status = "error"
    /\ result.error = drv[2].error

\* C5: every driver call a facade method makes runs in the session the caller
\* passed to that method, and in no session when the caller passed none.
C5_SessionForwarded ==
    (pc \in {"await", "done"})
    => /\ Len(calls) >= 1
       /\ \A k \in 1..Len(calls) : BoundSession(calls[k]) = GaveSession

\* findWithPagination with session s2: the data fetch and the count both run in s2
C5_Witness ==
    /\ IsPaginated
    /\ pc = "done"
    /\ op.opts.session = "s2"
    /\ BoundSession(calls[1]) = "s2"
    /\ BoundSession(calls[2]) = "s2"

\* The entities the current call's id or filter matched when the call began.
TargetIds ==
    IF op.name \in {"findById", "findByIdLean", "updateById", "deleteById"}
    THEN {i \in {op.id} : before[i] # NoName}
    ELSE LET f == IF op.name \in {"findOne", "findOneLean"} THEN FilterOrAll(op.opts)
                  ELSE op.filter
         IN  {i \in Ids : Matches(f, before[i])}

\* C6: when updateById / updateOne matched an entity, the entity returned is
\* the stored document after the patch was applied, whatever the options.
C6_ReturnsPostUpdate ==
    (Returned /\ op.name \in {"updateById", "updateOne"})
    => /\ TargetIds # {} <=> result.kind = "doc"
       /\ result.kind = "doc" =>
            LET e == result.docs[1]
            IN  /\ e.id \in TargetIds
                /\ e.name = docs[e.id]
                /\ e.name = op.patch
                /\ docs = [before EXCEPT ![e.id] = op.patch]

\* an update that changed the stored name returned the new name
C6_Witness ==
    /\ Returned
    /\ op.name = "updateById"
    /\ result.kind = "doc"
    /\ before[op.id] # docs[op.id]
    /\ result.docs[1].name = docs[op.id]

\* C7: an update method runs the validators unless this very call passed
\* runValidators = false: then they are skipped and the patch is applied and
\* returned even when it violates the schema; otherwise a violating patch is
\* rejected and nothing is stored.  Earlier calls have no influence.
C7_ValidatorsDefaultOn ==
    (pc = "done" /\ op.name \in UpdateNames)
    => LET optOut == op.opts.present /\ op.opts.runValidators = "false"
           sent == drv[1].error \notin TransportErrors
       IN  /\ calls[1].runValidators = ~optOut
           /\ (~optOut /\ ~Valid(op.patch) /\ sent) =>
                /\ result.status = "error"
                /\ result.error = "ValidationError"
                /\ docs = before
           /\ (optOut /\ sent) =>
                /\ result.status = "ok"
                /\ op.name = "updateMany" =>
                      \A i \in Ids : Matches(op.filter, before[i]) => docs[i] = op.patch
                /\ (op.name # "updateMany" /\ TargetIds # {}) =>
                      /\ result.kind = "doc"
                      /\ result.docs[1].name = op.patch
                      /\ docs[result.docs[1].id] = op.patch

\* after an earlier call opted out, a call without the option is validated again
C7_Witness ==
    /\ pc = "done"
    /\ optedOut
    /\ op.name = "updateById"
    /\ op.opts.present
    /\ op.opts.runValidators = Undefined
    /\ calls[1].runValidators
    /\ result.error = "ValidationError"

\* C8: a find / update / delete of one entity whose id or filter matches
\* nothing leaves the collection as it was and, the driver call having
\* resolved, returns null; the facade raises no error of its own.
C8_NotFoundIsNull ==
    (pc = "done" /\ TargetIds = {}
     /\ op.name \in {"findById", "findOne", "findByIdLean", "findOneLean",
                     "updateById", "updateOne", "deleteById", "deleteOne"})
    => /\ docs = before
       /\ drv[1].status = "ok" => (result.status = "ok" /\ result.kind = "null")
       /\ result.status = "error" =>
            (drv[1].status = "error" /\ result.error = drv[1].error)

\* updateById of an id that is not stored returned null
C8_Witness ==
    /\ Returned
    /\ op.name = "updateById"
    /\ before[op.id] = NoName
    /\ result.kind = "null"

\* C9: a facade method throws exactly when a driver call of it was rejected,
\* and throws that call's error; it returns nothing then; it invokes each
\* driver primitive at most once.
C9_ErrorsSurface ==
    (pc = "done")
    => /\ Len(drv) = Len(calls)
       /\ Len(calls) = IF IsPaginated THEN 2 ELSE 1
       /\ \A j, k \in 1..Len(calls) : j # k => calls[j].prim # calls[k].prim
       /\ (\E k \in 1..Len(drv) : drv[k].status = "error") <=> result.status = "error"
       /\ result.status = "error" =>
            /\ \E k \in 1..Len(drv) :
                  drv[k].status = "error" /\ result.error = drv[k].error
            /\ result.kind = "none" /\ result.docs = <<>>
            /\ result.n = 0 /\ ~result.flag /\ result.meta = NoMeta

\* create of data the schema rejects throws the validation error and stores nothing
C9_Witness ==
    /\ pc = "done"
    /\ op.name = "create"
    /\ ~Valid(op.data[1])
    /\ result.status = "error"
    /\ result.error = "ValidationError"
    /\ docs = before

\* C10: create(d) returns and stores an entity with the data d; until that
\* entity is changed or removed, findById of its id returns it with the data
\* d and exists(f) is true for every f that d matches; exists(f) is true
\* exactly when a stored entity matches f.
C10_ReadYourCreate ==
    /\ (Returned /\ op.name = "create") =>
            /\ result.kind = "doc"
            /\ result.docs[1].name = op.data[1]
            /\ created = result.docs[1]
            /\ docs[created.id] = op.data[1]
    /\ (Returned /\ op.name \in {"findById", "findByIdLean"}
        /\ created # Null /\ op.id = created.id) =>
            /\ result.kind = "doc"
            /\ result.docs[1] = created
    /\ (Returned /\ op.name = "exists") =>
            /\ result.kind = "bool"
            /\ result.flag <=> \E i \in Ids : Matches(op.filter, docs[i])
            /\ (created # Null /\ Matches(op.filter, created.name)) => result.flag

\* exists({name: d}) is true after create({name: d})
C10_Witness ==
    /\ Returned
    /\ op.name = "exists"
    /\ created # Null
    /\ op.filter = created.name
    /\ result.flag

\* C11: deleteById / deleteOne that matched an entity return that entity
\* with the content it had when the call began and remove it and nothing
\* else; while its id is not stored again, findById of that id returns
\* null, exists is decided by the other entities alone, and deleteById of
\* that id returns null and removes nothing.
C11_DeleteReturnsSnapshot ==
    /\ (Returned /\ op.name \in {"deleteById", "deleteOne"}) =>
            /\ TargetIds # {} <=> result.kind = "doc"
            /\ result.kind = "doc" =>
                  LET e == result.docs[1]
                  IN  /\ e.id \in TargetIds
                      /\ e.name = before[e.id]
                      /\ docs = [before EXCEPT ![e.id] = NoName]
                      /\ deleted = e.id
    /\ deleted # 0 => docs[deleted] = NoName
    /\ (Returned /\ deleted # 0 /\ op.name \in {"findById", "findByIdLean"}
        /\ op.id = deleted) => result.kind = "null"
    /\ (Returned /\ deleted # 0 /\ op.name = "exists") =>
            (result.flag <=> \E i \in Ids \ {deleted} : Matches(op.filter, docs[i]))
    /\ (Returned /\ deleted # 0 /\ op.name = "deleteById" /\ op.id = deleted
        /\ before[op.id] = NoName) =>
            /\ result.kind = "null"
            /\ docs = before

\* deleteById removed the second of two stored entities and returned it
C11_Witness ==
    /\ Returned
    /\ op.name = "deleteById"
    /\ op.id = 2
    /\ before[1] # NoName
    /\ result.kind = "doc"
    /\ result.docs[1] = [id |-> 2, name |-> before[2]]
    /\ docs = [before EXCEPT ![2] = NoName]

\* a second deleteById of the id just deleted returned null
C11_SecondDelete ==
    /\ Returned
    /\ op.name = "deleteById"
    /\ op.id = deleted
    /\ before[op.id] = NoName
    /\ result.kind = "null"

Stored(d) == {i \in Ids : d[i] # NoName}

\* C12: updateMany and deleteMany return a number and no entities, the
\* count the driver reported: for updateMany the number of entities the
\* call changed, for deleteMany the number it removed.  After deleteMany(f)
\* returned n the collection holds n entities fewer, the others are as they
\* were, none matches f and count(f) is 0.
C12_CountsReturned ==
    (Returned /\ op.name \in {"updateMany", "deleteMany"})
    => /\ result.kind = "num"
       /\ result.docs = <<>>
       /\ result.n = drv[1].n
       /\ op.name = "updateMany" =>
            /\ result.n = Cardinality({i \in Ids : docs[i] # before[i]})
            /\ Stored(docs) = Stored(before)
       /\ op.name = "deleteMany" =>
            /\ Stored(docs) \subseteq Stored(before)
            /\ Cardinality(Stored(docs)) = Cardinality(Stored(before)) - result.n
            /\ \A i \in Stored(docs) : docs[i] = before[i] /\ ~Matches(op.filter, docs[i])
            /\ \A o \in PlainOptions :
                  Return(ExecRead(CountQuery(op.filter, o))).n = 0

\* deleteMany removed two entities, returned 2 and left the collection empty
C12_Witness ==
    /\ Returned
    /\ op.name = "deleteMany"
    /\ result.n = 2
    /\ Cardinality(Stored(before)) = 2
    /\ Stored(docs) = {}

\* updateMany matched two entities and changed one of them
C12_UpdateManyWitness ==
    /\ Returned
    /\ op.name = "updateMany"
    /\ Cardinality(TargetIds) = 2
    /\ result.n = 1

\* What the non-lean counterpart of the lean call just served returns for
\* the same arguments on the same collection.
NonLeanResult ==
    CASE op.name = "findByIdLean" -> Return(ExecRead(FindByIdQuery(op.id, op.opts)))
      [] op.name = "findOneLean" -> Return(ExecRead(FindOneQuery(op.opts)))
      [] op.name = "findManyLean" -> Return(ExecRead(FindManyQuery(op.opts)))
      [] op.name = "findWithPaginationLean" ->
            LET qs == PaginatedCalls(op.opts, FALSE)
            IN  PaginatedReturn(op.opts, ExecRead(qs[1]), ExecRead(qs[2]))

\* C13: on the same collection and for the same arguments a lean read
\* returns what its non-lean counterpart returns: the same entities in the
\* same order with the same content, and for findWithPaginationLean the
\* same meta; the lean query differs from the counterpart's by the lean()
\* step alone.
C13_LeanEquivalent ==
    (Returned /\ op.lean)
    => /\ result = NonLeanResult
       /\ HasChain(calls[1], "lean")
       /\ LET nl == CASE op.name = "findByIdLean" -> FindByIdQuery(op.id, op.opts)
                      [] op.name = "findOneLean" -> FindOneQuery(op.opts)
                      [] op.name = "findManyLean" -> FindManyQuery(op.opts)
                      [] op.name = "findWithPaginationLean" ->
                            PaginatedCalls(op.opts, FALSE)[1]
          IN  SelectSeq(calls[1].chain, LAMBDA b : b.m # "lean") = nl.chain

\* a lean page of two projected entities in descending order
C13_Witness ==
    /\ Returned
    /\ op.name = "findWithPaginationLean"
    /\ op.opts.present
    /\ op.opts.projection = "-name"
    /\ op.opts.sort = "desc"
    /\ Len(result.docs) = 2
    /\ result.docs[1].id > result.docs[2].id
    /\ result.meta.total = 2
    /\ result = NonLeanResult

ReadNames == {"findById", "findOne", "findMany",
              "findByIdLean", "findOneLean", "findManyLean"}

\* The builder steps a read may take, in the order the claim fixes, each with
\* the argument it is given and whether the call just served asked for it.
ReadSteps ==
    LET o == op.opts
        paged == op.name \in {"findMany", "findManyLean"} /\ o.present
                 /\ o.pagination.present
    IN  << [m |-> "select", arg |-> o.projection,
            on |-> o.present /\ o.projection # Undefined],
           [m |-> "sort", arg |-> o.sort, on |-> o.present /\ o.sort # Undefined],
           [m |-> "populate", arg |-> o.populate,
            on |-> o.present /\ o.populate # Undefined],
           [m |-> "session", arg |-> o.session,
            on |-> o.present /\ o.session # Undefined],
           [m |-> "setOptions", arg |-> o.options,
            on |-> o.present /\ o.options # Undefined],
           [m |-> "skip", arg |-> "", on |-> paged],
           [m |-> "limit", arg |-> "", on |-> paged],
           [m |-> "lean", arg |-> "", on |-> op.lean],
           [m |-> "exec", arg |-> "", on |-> TRUE] >>

\* C14: the builder calls a read method makes on the driver query are, in
\* this order and each only when its option was supplied: select(projection),
\* sort, populate, session, setOptions(passthrough options); findMany then
\* adds skip and limit when pagination was supplied; exec() comes last and
\* once, after every option (and lean(), for a lean method).
C14_OptionOrder ==
    (pc = "done" /\ op.name \in ReadNames)
    => LET want == SelectSeq(ReadSteps, LAMBDA st : st.on)
           got == calls[1].chain
       IN  /\ Len(got) = Len(want)
           /\ \A k \in 1..Len(got) : got[k].m = want[k].m /\ got[k].arg = want[k].arg
           /\ got[Len(got)].m = "exec"

\* findMany with every option supplied made all eight builder calls in order
C14_Witness ==
    /\ pc = "done"
    /\ op.name = "findMany"
    /\ [k \in 1..Len(calls[1].chain) |-> calls[1].chain[k].m]
         = <<"select", "sort", "populate", "session", "setOptions", "skip", "limit", "exec">>

PageSkip == (result.meta.page - 1) * result.meta.limit

\* C15 as claimed: every page returned with page >= 1 and limit >= 1 has at
\* most limit entities and ends within the reported total, also when other
\* writers insert or delete while the two driver calls are in flight.
C15_PageWithinTotal ==
    (Returned /\ IsPaginated /\ result.meta.page >= 1 /\ result.meta.limit >= 1)
    => /\ Len(result.docs) <= result.meta.limit
       /\ PageSkip + Len(result.docs) <= result.meta.total

\* C15 as it holds: every page returned has at most limit entities, whatever
\* other writers do; a page that is not empty ends within the reported
\* total provided no other writer wrote between the data fetch and the count
\* query.
C15_PageWithinTotalUntorn ==
    (Returned /\ IsPaginated /\ result.meta.page >= 1 /\ result.meta.limit >= 1)
    => /\ Len(result.docs) <= result.meta.limit
       /\ (~torn /\ Len(result.docs) > 0) =>
              PageSkip + Len(result.docs) <= result.meta.total

\* another writer wrote before both reads, and the second page, holding an
\* entity, ends within the total
C15_Witness ==
    /\ Returned
    /\ IsPaginated
    /\ writes > 0
    /\ ~torn
    /\ result.meta.page = 2
    /\ Len(result.docs) = 1
    /\ PageSkip + Len(result.docs) <= result.meta.total

\* a delete between the data fetch and the count left a page that ends
\* beyond the reported total
C15_TornPage ==
    /\ Returned
    /\ IsPaginated
    /\ torn
    /\ Len(result.docs) > 0
    /\ PageSkip + Len(result.docs) > result.meta.total

MatchCount == Cardinality({i \in Ids : Matches(FilterOrAll(op.opts), docs[i])})

\* C16: when no other writer wrote between the two reads of a paginated call
\* with page >= 1 and limit >= 1, meta.total is the number of stored
\* entities matching the filter, whatever page, limit, sort and projection
\* are; the page holds min(limit, max(0, total - (page-1)*limit)) entities;
\* and a page beyond totalPages is empty with hasNextPage false.
C16_QuiescentPage ==
    (Returned /\ IsPaginated /\ ~torn
     /\ result.meta.page >= 1 /\ result.meta.limit >= 1)
    => LET rest == result.meta.total - PageSkip
       IN  /\ result.meta.total = MatchCount
           /\ Len(result.docs) = Min(result.meta.limit, IF rest > 0 THEN rest ELSE 0)
           /\ result.meta.page > result.meta.totalPages =>
                  (result.docs = <<>> /\ ~result.meta.hasNextPage)

\* of two stored entities one matches the filter: the projected, sorted
\* first page holds it and the total is 1
C16_Witness ==
    /\ Returned
    /\ IsPaginated
    /\ ~torn
    /\ Cardinality(Stored(docs)) = 2
    /\ op.opts.filter = "A"
    /\ op.opts.projection = "-name"
    /\ op.opts.sort = "desc"
    /\ result.meta.total = 1
    /\ result.meta.page = 1
    /\ Len(result.docs) = 1

\* a page beyond the last one is empty
C16_BeyondLastPage ==
    /\ Returned
    /\ IsPaginated
    /\ ~torn
    /\ result.meta.total > 0
    /\ result.meta.page > result.meta.totalPages
    /\ result.docs = <<>>
    /\ ~result.meta.hasNextPage

====
